---- MODULE Spec2Model ----
(***************************************************************************)
(* OHS hazard reporting app (src/OHS.py): the submission pipeline of       *)
(* main() over the two pieces of durable storage it touches, the image     *)
(* directory UPLOADS_DIR and the report log REPORTS_CSV.                   *)
(*                                                                         *)
(* Text is modelled as a sequence of one-character strings so that         *)
(* strftime, os.path.splitext, str.split and the CSV writer are computed   *)
(* as the code computes them.  Each session is one Streamlit script run at *)
(* a time; a run of main() is cut at its file-system calls.                *)
(***************************************************************************)
EXTENDS Integers, Sequences, FiniteSets, TLC

(* ------------------------------ bounds --------------------------------- *)

\* Number of runs of main() started, over all sessions.
MaxRuns == 2

\* Largest clock value (in ticks) datetime.now() returns.
MaxClock == 2

\* Sub-second resolution of datetime.now(): ticks per second.
TicksPerSecond == 2

Sessions == {1, 2}

(* --------------------------- text helpers ------------------------------ *)

DigitChars == <<"0", "1", "2", "3", "4", "5", "6", "7", "8", "9">>

Digit(n) == DigitChars[n + 1]

\* %m, %d, %H, %M, %S: two digits, zero padded.
Pad2(n) == <<Digit((n \div 10) % 10), Digit(n % 10)>>

\* %Y: four digits.
Pad4(n) == Pad2(n \div 100) \o Pad2(n % 100)

(* ----------------------- configuration constants ----------------------- *)

UPLOADS_DIR == <<"u", "p", "l", "o", "a", "d", "s">>

\* The columns initialize_storage gives the log, in order.
Columns ==
    << <<"R","e","p","o","r","t","I","D">>,
       <<"T","i","m","e","s","t","a","m","p">>,
       <<"E","m","p","l","o","y","e","e","I","D">>,
       <<"E","n","t","i","t","y">>,
       <<"S","p","e","c","i","f","i","c","A","r","e","a">>,
       <<"U","r","g","e","n","c","y">>,
       <<"D","e","s","c","r","i","p","t","i","o","n">>,
       <<"I","m","a","g","e","P","a","t","h">> >>

NA == <<"N", "/", "A">>

Anonymous == <<"A","n","o","n","y","m","o","u","s">>

(* ------------------------------- clock --------------------------------- *)

\* The wall clock at tick 0 (two seconds before a change of hour, so that
\* the formatted fields carry).
Epoch == [year |-> 2025, month |-> 3, day |-> 14,
          hour |-> 10, minute |-> 59, second |-> 58]

\* datetime.now() at clock value tick: second-of-day arithmetic, with the
\* sub-second part kept in microsecond.
DateTimeNow(tick) ==
    LET total == Epoch.hour * 3600 + Epoch.minute * 60 + Epoch.second
                 + (tick \div TicksPerSecond)
    IN [year |-> Epoch.year, month |-> Epoch.month, day |-> Epoch.day,
        hour |-> (total \div 3600) % 24,
        minute |-> (total \div 60) % 60,
        second |-> total % 60,
        microsecond |-> tick % TicksPerSecond]

\* timestamp.strftime("HAZ%Y%m%d-%H%M%S")
StrfReportId(dt) ==
    <<"H", "A", "Z">> \o Pad4(dt.year) \o Pad2(dt.month) \o Pad2(dt.day)
    \o <<"-">> \o Pad2(dt.hour) \o Pad2(dt.minute) \o Pad2(dt.second)

\* A variant of StrfTimestamp: the format ends in %M where %S belongs.
StrfTimestampMinutesTwice(dt) ==
    Pad4(dt.year) \o <<"-">> \o Pad2(dt.month) \o <<"-">> \o Pad2(dt.day)
    \o <<" ">> \o Pad2(dt.hour) \o <<":">> \o Pad2(dt.minute)
    \o <<":">> \o Pad2(dt.minute)

\* timestamp.strftime("%Y-%m-%d %H:%M:%S")
StrfTimestamp(dt) ==
    Pad4(dt.year) \o <<"-">> \o Pad2(dt.month) \o <<"-">> \o Pad2(dt.day)
    \o <<" ">> \o Pad2(dt.hour) \o <<":">> \o Pad2(dt.minute)
    \o <<":">> \o Pad2(dt.second)

(* ------------------------------ paths ---------------------------------- *)

\* Index of the last "." of name, 0 if there is none.
LastDot(name) ==
    LET dots == {i \in 1..Len(name) : name[i] = "."}
    IN IF dots = {} THEN 0 ELSE CHOOSE i \in dots : \A j \in dots : j <= i

\* os.path.splitext(name)[1] for a name without directory separators: the
\* text from the last dot on, empty when there is no dot or when only dots
\* precede it (a leading-dot name has no extension).
SplitExt(name) ==
    LET d == LastDot(name)
    IN IF d = 0 \/ (\A i \in 1..d : name[i] = ".")
       THEN <<>>
       ELSE SubSeq(name, d, Len(name))

\* os.path.join(directory, filename)
PathJoin(directory, filename) == directory \o <<"/">> \o filename

(* ------------------------------- CSV ----------------------------------- *)

\* csv.QUOTE_MINIMAL: a field is quoted when it holds the delimiter, the
\* quote character or a line terminator character.
NeedsQuote(field) ==
    \E i \in 1..Len(field) : field[i] \in {",", "\"", "\n", "\r"}

RECURSIVE DoubleQuotes(_)
\* doublequote=True: every quote character inside a quoted field is doubled.
DoubleQuotes(field) ==
    IF field = <<>> THEN <<>>
    ELSE (IF Head(field) = "\"" THEN <<"\"", "\"">> ELSE <<Head(field)>>)
         \o DoubleQuotes(Tail(field))

\* A variant of CsvField: fields are written as they are.
CsvFieldRaw(field) == field

CsvField(field) ==
    IF NeedsQuote(field)
    THEN <<"\"">> \o DoubleQuotes(field) \o <<"\"">>
    ELSE field

RECURSIVE JoinFields(_)
JoinFields(fields) ==
    IF Len(fields) = 0 THEN <<>>
    ELSE IF Len(fields) = 1 THEN CsvField(fields[1])
    ELSE CsvField(fields[1]) \o <<",">> \o JoinFields(Tail(fields))

\* One line as DataFrame.to_csv(index=False) writes it: the fields, comma
\* separated, and the line terminator.
CsvLine(fields) == JoinFields(fields) \o <<"\n">>

\* The line to_csv writes for the empty frame of initialize_storage.
HeaderLine == CsvLine(Columns)

(* ---------------------------- form inputs ------------------------------ *)

\* The options of the "Location / Entity" select box used by the inputs.
EntityBCF ==
    <<"B", "C", "F", " ", "(", "B", "i", "s", "c", "u", "i", "t", " ",
      "C", "o", "m", "p", "a", "n", "y", ")">>

EntityFlourMill == <<"F", "l", "o", "u", "r", " ", "M", "i", "l", "l">>

EntityOther == <<"O", "t", "h", "e", "r">>

\* The options of the "Urgency Level" select box.  Each begins with one
\* emoji character, written here as a one-element name.
UrgencyImmediate ==
    <<"(red)", " ", "I", "m", "m", "e", "d", "i", "a", "t", "e", " ",
      "D", "a", "n", "g", "e", "r", " ", "-", " ", "S", "t", "o", "p", " ",
      "W", "o", "r", "k", " ", "R", "e", "q", "u", "i", "r", "e", "d">>

UrgencyAttention ==
    <<"(yellow)", " ", "N", "e", "e", "d", "s", " ", "A", "t", "t", "e",
      "n", "t", "i", "o", "n", " ", "-", " ", "P", "o", "t", "e", "n", "t",
      "i", "a", "l", " ", "f", "o", "r", " ", "H", "a", "r", "m">>

UrgencyImprovement ==
    <<"(green)", " ", "G", "e", "n", "e", "r", "a", "l", " ", "I", "m", "p",
      "r", "o", "v", "e", "m", "e", "n", "t", " ", "/", " ", "O", "b", "s",
      "e", "r", "v", "a", "t", "i", "o", "n">>

UrgencyOptions == {UrgencyImmediate, UrgencyAttention, UrgencyImprovement}

\* st.file_uploader returns None or an object with .name and .getbuffer().
None == [present |-> FALSE, name |-> <<>>, buffer |-> <<>>]

UploadedFile(name, buffer) ==
    [present |-> TRUE, name |-> name, buffer |-> buffer]

Line3 == <<"L", "i", "n", "e", " ", "3">>

OilWet == <<"O", "i", "l", ",", " ", "w", "e", "t">>

SayNo == <<"S", "a", "y", " ", "\"", "n", "o", "\"">>

TwoLines == <<"a", "\n", "b">>

PhotoA == UploadedFile(<<"a", ".", "p", "n", "g">>, <<1, 2>>)

PhotoB == UploadedFile(<<"b", ".", "p", "n", "g">>, <<3>>)

PhotoC == UploadedFile(<<"c", ".", "t", "a", "r", ".", "j", "p", "g">>, <<1, 2>>)

FormInput(emp, ent, area, desc, urg, photo) ==
    [submitted |-> TRUE, employee_id |-> emp, entity |-> ent,
     specific_area |-> area, description |-> desc, urgency |-> urg,
     uploaded_photo |-> photo]

\* A script run in which the submit button was not clicked: the widgets
\* hold their defaults.
NotSubmitted ==
    [submitted |-> FALSE, employee_id |-> <<>>, entity |-> EntityBCF,
     specific_area |-> <<>>, description |-> <<>>,
     urgency |-> UrgencyAttention, uploaded_photo |-> None]

\* The form contents a run of main() may meet.
Forms ==
    { NotSubmitted,
      \* complete submissions
      FormInput(<<>>, EntityBCF, Line3, OilWet, UrgencyAttention, None),
      FormInput(<<"E", "7">>, EntityFlourMill, Line3, SayNo,
                UrgencyImmediate, PhotoA),
      FormInput(<<>>, EntityOther, Line3, TwoLines, UrgencyImprovement,
                PhotoB),
      FormInput(<<" ">>, EntityBCF, Line3, OilWet, UrgencyAttention, PhotoC),
      \* a required field left empty
      FormInput(<<>>, EntityBCF, <<>>, OilWet, UrgencyAttention, PhotoA),
      FormInput(<<"E", "7">>, EntityBCF, Line3, <<>>, UrgencyImmediate, None),
      FormInput(<<>>, EntityBCF, <<>>, <<>>, UrgencyAttention, PhotoB),
      \* a required field holding only white space
      FormInput(<<>>, EntityBCF, <<" ">>, OilWet, UrgencyAttention, None),
      FormInput(<<>>, EntityBCF, Line3, <<" ", "\n">>, UrgencyAttention,
                PhotoA) }

(* ------------------------------- state --------------------------------- *)

VARIABLES
    dirExists,    \* os.path.exists(UPLOADS_DIR)
    files,        \* the image directory: path -> bytes
    csvExists,    \* os.path.exists(REPORTS_CSV)
    csv,          \* the log: the lines written to REPORTS_CSV, in file order
    now,          \* the wall clock, in ticks
    pc,           \* per session: where its run of main() stands
    form,         \* per session: the widget values of the run
    timestamp,    \* per session: main()'s timestamp
    report_id,    \* per session: main()'s report_id
    image_path,   \* per session: main()'s image_path
    outcome,      \* per session: what the run showed the user
    imgWrites,    \* per session: image files opened for writing in this run
    appendCalls,  \* per session: calls of save_report in this run
    accepted,     \* history: form, time and report_data of every row
                  \* appended, in order
    start,        \* history: the storage the first run met
    runs          \* number of runs started

storage == <<dirExists, files, csvExists, csv>>

locals == <<form, timestamp, report_id, image_path, outcome,
            imgWrites, appendCalls>>

vars == <<dirExists, files, csvExists, csv, now, pc, form, timestamp,
          report_id, image_path, outcome, imgWrites, appendCalls, accepted,
          start, runs>>

\* Python's None for image_path, and a path.
NoPath == [isNone |-> TRUE, path |-> <<>>]

SomePath(p) == [isNone |-> FALSE, path |-> p]

NoTime == DateTimeNow(0)

(* ------------------------- storage operations -------------------------- *)

\* A variant of WriteFile: nothing reaches the disk.
WriteFileLost(fs, path, data) == fs

\* open(path, "wb") followed by f.write(data): the file holds data, whatever
\* it held before.
WriteFile(fs, path, data) ==
    [p \in (DOMAIN fs) \cup {path} |-> IF p = path THEN data ELSE fs[p]]

\* os.makedirs(UPLOADS_DIR) under "if not os.path.exists(UPLOADS_DIR)".
MakeDirs(st) ==
    IF ~st.dirExists THEN [st EXCEPT !.dirExists = TRUE] ELSE st

\* df.to_csv(REPORTS_CSV, index=False) of the empty frame: the file is
\* created, or truncated, and holds the header line only.
WriteHeaderFile(st) == [st EXCEPT !.csvExists = TRUE, !.csv = <<HeaderLine>>]

\* A variant of CreateCsv: the header file is written on every start.
CreateCsvAlways(st) == WriteHeaderFile(st)

\* Lines 33-38: the header file is written under
\* "if not os.path.exists(REPORTS_CSV)".
CreateCsv(st) == IF ~st.csvExists THEN WriteHeaderFile(st) ELSE st

\* initialize_storage() run without interruption on storage st.
initialize_storage(st) == CreateCsv(MakeDirs(st))

\* A variant of AppendCsv: the call returns and nothing was written.
AppendCsvLost(log, fields) == log

\* df.to_csv(REPORTS_CSV, mode='a', header=False, index=False): one line is
\* added at the end of the file, which is created when it is absent.
AppendCsv(log, fields) == Append(log, CsvLine(fields))

Storage == [dirExists |-> dirExists, files |-> files,
            csvExists |-> csvExists, csv |-> csv]

(* -------------------------- main(): helpers ---------------------------- *)

\* Python truth value of a str: the empty string alone is false.
Truthy(text) == text # <<>>

\* A variant of Invalid: the description is not looked at.
InvalidAreaOnly(f) == ~Truthy(f.specific_area)

\* A variant of Invalid: rejected only when both fields are empty.
InvalidBoth(f) == ~Truthy(f.description) /\ ~Truthy(f.specific_area)

\* The check of line 137: "not description or not specific_area".
Invalid(f) == ~Truthy(f.description) \/ ~Truthy(f.specific_area)

\* A variant of SplitFirst: the option is stored whole.
SplitFirstWhole(text) == text

\* urgency.split(' ')[0]: the text before the first space, all of it when
\* there is no space.
SplitFirst(text) ==
    LET spaces == {i \in 1..Len(text) : text[i] = " "}
    IN IF spaces = {} THEN text
       ELSE SubSeq(text, 1,
                   (CHOOSE i \in spaces : \A j \in spaces : i <= j) - 1)

\* A variant of ImagePath: the photo keeps the name it was uploaded under.
ImagePathUploadName(photo, rid) == PathJoin(UPLOADS_DIR, photo.name)

\* image_filename and image_path of save_image.
ImagePath(photo, rid) ==
    PathJoin(UPLOADS_DIR, rid \o SplitExt(photo.name))

\* The dictionary report_data of main().
ReportData(f, ts, rid, ipath) ==
    [ReportID |-> rid,
     Timestamp |-> StrfTimestamp(ts),
     EmployeeID |-> IF Truthy(f.employee_id) THEN f.employee_id
                    ELSE Anonymous,
     Entity |-> f.entity,
     SpecificArea |-> f.specific_area,
     Urgency |-> SplitFirst(f.urgency),
     Description |-> f.description,
     ImagePath |-> IF ~ipath.isNone /\ Truthy(ipath.path) THEN ipath.path
                   ELSE NA]

\* pd.DataFrame([report_data]): one row, its columns in the insertion order
\* of the dictionary's keys.
RowValues(rd) ==
    <<rd.ReportID, rd.Timestamp, rd.EmployeeID, rd.Entity, rd.SpecificArea,
      rd.Urgency, rd.Description, rd.ImagePath>>

(* -------------------------- starting storage --------------------------- *)

\* A report of an earlier day, with its photo.
PriorTime == [year |-> 2025, month |-> 3, day |-> 13, hour |-> 9,
              minute |-> 7, second |-> 7, microsecond |-> 0]

PriorReport ==
    ReportData(FormInput(<<"E", "7">>, EntityOther, Line3, OilWet,
                         UrgencyImprovement, PhotoA),
               PriorTime, StrfReportId(PriorTime),
               SomePath(ImagePath(PhotoA, StrfReportId(PriorTime))))

NoFiles == [p \in {} |-> <<>>]

\* What the working directory may hold when the app is started: nothing; an
\* image directory and a log of zero bytes; a log with its header; a log
\* with its header and a row.
StartStates ==
    { [dirExists |-> FALSE, files |-> NoFiles, csvExists |-> FALSE,
       csv |-> <<>>],
      [dirExists |-> TRUE, files |-> NoFiles, csvExists |-> TRUE,
       csv |-> <<>>],
      [dirExists |-> TRUE, files |-> NoFiles, csvExists |-> TRUE,
       csv |-> <<HeaderLine>>],
      [dirExists |-> TRUE,
       files |-> [p \in {PriorReport.ImagePath} |-> PhotoA.buffer],
       csvExists |-> TRUE,
       csv |-> <<HeaderLine, CsvLine(RowValues(PriorReport))>>] }

(* ------------------------------ actions -------------------------------- *)

Init ==
    /\ start \in StartStates
    /\ dirExists = start.dirExists
    /\ files = start.files
    /\ csvExists = start.csvExists
    /\ csv = start.csv
    /\ now = 0
    /\ pc = [s \in Sessions |-> "idle"]
    /\ form = [s \in Sessions |-> NotSubmitted]
    /\ timestamp = [s \in Sessions |-> NoTime]
    /\ report_id = [s \in Sessions |-> <<>>]
    /\ image_path = [s \in Sessions |-> NoPath]
    /\ outcome = [s \in Sessions |-> "none"]
    /\ imgWrites = [s \in Sessions |-> 0]
    /\ appendCalls = [s \in Sessions |-> 0]
    /\ accepted = <<>>
    /\ runs = 0

\* Streamlit runs the script for session s: main() is entered with the
\* widget values f.
StartRun(s) ==
    /\ pc[s] = "idle"
    /\ runs < MaxRuns
    /\ \E f \in Forms : form' = [form EXCEPT ![s] = f]
    /\ runs' = runs + 1
    /\ pc' = [pc EXCEPT ![s] = "check_dir"]
    /\ UNCHANGED <<storage, now, timestamp, report_id, image_path, outcome,
                   imgWrites, appendCalls, accepted, start>>

\* Line 29: if not os.path.exists(UPLOADS_DIR).
CheckDir(s) ==
    /\ pc[s] = "check_dir"
    /\ pc' = [pc EXCEPT ![s] = IF dirExists THEN "check_csv" ELSE "make_dir"]
    /\ UNCHANGED <<storage, now, locals, accepted, start, runs>>

\* Line 30: os.makedirs(UPLOADS_DIR), which raises FileExistsError when the
\* directory has appeared since the check.
MakeDir(s) ==
    /\ pc[s] = "make_dir"
    /\ IF dirExists
       THEN /\ outcome' = [outcome EXCEPT ![s] = "exception"]
            /\ pc' = [pc EXCEPT ![s] = "done"]
            /\ UNCHANGED dirExists
       ELSE /\ dirExists' = MakeDirs(Storage).dirExists
            /\ pc' = [pc EXCEPT ![s] = "check_csv"]
            /\ UNCHANGED outcome
    /\ UNCHANGED <<files, csvExists, csv, now, form, timestamp, report_id,
                   image_path, imgWrites, appendCalls, accepted, start, runs>>

\* Line 33: if not os.path.exists(REPORTS_CSV).
CheckCsv(s) ==
    /\ pc[s] = "check_csv"
    /\ pc' = [pc EXCEPT ![s] = IF csvExists THEN "form" ELSE "create_csv"]
    /\ UNCHANGED <<storage, now, locals, accepted, start, runs>>

\* Lines 34-38: the log is written anew with the header, over whatever the
\* file holds by now.
WriteHeader(s) ==
    /\ pc[s] = "create_csv"
    /\ csvExists' = WriteHeaderFile(Storage).csvExists
    /\ csv' = WriteHeaderFile(Storage).csv
    /\ pc' = [pc EXCEPT ![s] = "form"]
    /\ UNCHANGED <<dirExists, files, now, locals, accepted, start, runs>>

\* Lines 135-142: nothing to do unless the form was submitted; a submission
\* is validated and, when valid, the time is read and the ID derived.
Submit(s) ==
    /\ pc[s] = "form"
    /\ IF ~form[s].submitted
       THEN /\ outcome' = [outcome EXCEPT ![s] = "rendered"]
            /\ pc' = [pc EXCEPT ![s] = "done"]
            /\ UNCHANGED <<now, timestamp, report_id>>
       ELSE IF Invalid(form[s])
       THEN /\ outcome' = [outcome EXCEPT ![s] = "validation_error"]
            /\ pc' = [pc EXCEPT ![s] = "done"]
            /\ UNCHANGED <<now, timestamp, report_id>>
       ELSE /\ \E t \in now..MaxClock :
                 /\ now' = t
                 /\ timestamp' = [timestamp EXCEPT ![s] = DateTimeNow(t)]
                 /\ report_id' =
                        [report_id EXCEPT ![s] = StrfReportId(DateTimeNow(t))]
            /\ pc' = [pc EXCEPT ![s] = "save_image"]
            /\ UNCHANGED outcome
    /\ UNCHANGED <<storage, form, image_path, imgWrites, appendCalls,
                   accepted, start, runs>>

\* A variant of OnImageError: the failure is swallowed and main() goes on.
OnImageErrorSwallowed == [pc |-> "save_report", outcome |-> "none"]

\* Where an exception raised inside save_image takes the run: neither
\* save_image nor main() has a handler, so it leaves main().
OnImageError == [pc |-> "done", outcome |-> "exception"]

\* Line 145, save_image(uploaded_photo, report_id).  Without a photo it
\* returns None.  With one, open() may fail (nothing changes), the write may
\* fail after open() has created or truncated the file, or the bytes are
\* stored; a failure leaves main() by the exception.
SaveImage(s) ==
    /\ pc[s] = "save_image"
    /\ IF ~form[s].uploaded_photo.present
       THEN /\ image_path' = [image_path EXCEPT ![s] = NoPath]
            /\ pc' = [pc EXCEPT ![s] = "save_report"]
            /\ UNCHANGED <<files, outcome, imgWrites>>
       ELSE LET path == ImagePath(form[s].uploaded_photo, report_id[s])
            IN \E io \in {"ok", "open_fails", "write_fails"} :
                 /\ files' =
                      IF io = "ok" /\ dirExists
                      THEN WriteFile(files, path,
                                     form[s].uploaded_photo.buffer)
                      ELSE IF io = "write_fails" /\ dirExists
                      THEN WriteFile(files, path, <<>>)
                      ELSE files
                 /\ imgWrites' =
                      [imgWrites EXCEPT
                         ![s] = IF io # "open_fails" /\ dirExists
                                THEN @ + 1 ELSE @]
                 /\ IF io = "ok" /\ dirExists
                    THEN /\ image_path' =
                               [image_path EXCEPT ![s] = SomePath(path)]
                         /\ pc' = [pc EXCEPT ![s] = "save_report"]
                         /\ UNCHANGED outcome
                    ELSE /\ outcome' =
                               [outcome EXCEPT ![s] = OnImageError.outcome]
                         /\ pc' = [pc EXCEPT ![s] = OnImageError.pc]
                         /\ UNCHANGED image_path
    /\ UNCHANGED <<dirExists, csvExists, csv, now, form, timestamp,
                   report_id, appendCalls, accepted, start, runs>>

\* Lines 148-165: report_data is built and save_report appends its row; an
\* exception of the append is caught in save_report, which returns False.
SaveReport(s) ==
    /\ pc[s] = "save_report"
    /\ LET rd == ReportData(form[s], timestamp[s], report_id[s],
                            image_path[s])
       IN \E io \in {"ok", "append_fails"} :
            /\ appendCalls' = [appendCalls EXCEPT ![s] = @ + 1]
            /\ IF io = "ok"
               THEN /\ csv' = AppendCsv(csv, RowValues(rd))
                    /\ csvExists' = TRUE
                    /\ accepted' =
                         Append(accepted,
                                [form |-> form[s], timestamp |-> timestamp[s],
                                 report_data |-> rd])
                    /\ outcome' = [outcome EXCEPT ![s] = "success"]
               ELSE /\ outcome' = [outcome EXCEPT ![s] = "save_failed"]
                    /\ UNCHANGED <<csv, csvExists, accepted>>
    /\ pc' = [pc EXCEPT ![s] = "done"]
    /\ UNCHANGED <<dirExists, files, now, form, timestamp, report_id,
                   image_path, imgWrites, start, runs>>

\* The script run is over: its local variables are gone.
EndRun(s) ==
    /\ pc[s] = "done"
    /\ pc' = [pc EXCEPT ![s] = "idle"]
    /\ form' = [form EXCEPT ![s] = NotSubmitted]
    /\ timestamp' = [timestamp EXCEPT ![s] = NoTime]
    /\ report_id' = [report_id EXCEPT ![s] = <<>>]
    /\ image_path' = [image_path EXCEPT ![s] = NoPath]
    /\ outcome' = [outcome EXCEPT ![s] = "none"]
    /\ imgWrites' = [imgWrites EXCEPT ![s] = 0]
    /\ appendCalls' = [appendCalls EXCEPT ![s] = 0]
    /\ UNCHANGED <<storage, now, accepted, start, runs>>

\* The request-handling framework takes one submission at a time: a run
\* starts only while no other run is under way.
StartRunSerial(s) ==
    /\ \A o \in Sessions : pc[o] = "idle"
    /\ StartRun(s)

\* One run at a time, each handled to completion before the next.
Next ==
    \E s \in Sessions :
        \/ StartRunSerial(s)
        \/ CheckDir(s)
        \/ MakeDir(s)
        \/ CheckCsv(s)
        \/ WriteHeader(s)
        \/ Submit(s)
        \/ SaveImage(s)
        \/ SaveReport(s)
        \/ EndRun(s)

\* Sessions are separate threads of one server: their runs interleave.
NextConcurrent ==
    \E s \in Sessions :
        \/ StartRun(s)
        \/ CheckDir(s)
        \/ MakeDir(s)
        \/ CheckCsv(s)
        \/ WriteHeader(s)
        \/ Submit(s)
        \/ SaveImage(s)
        \/ SaveReport(s)
        \/ EndRun(s)

Spec == Init /\ [][Next]_vars

SpecConcurrent == Init /\ [][NextConcurrent]_vars

(* ====================== reading the storage back ======================= *)

\* The k-th smallest member of a set of numbers.
Kth(S, k) == CHOOSE x \in S : Cardinality({y \in S : y < x}) = k - 1

\* The positions of the quote characters of a text.
QuotePositions(text) == {j \in 1..Len(text) : text[j] = "\""}

\* A position before which the quote characters at positions quotes are
\* even in number lies outside a quoted field.
Outside(quotes, i) == Cardinality({j \in quotes : j < i}) % 2 = 0

\* The text of a quoted field without its outer quotes: of every doubled
\* quote one is kept.
Undouble(inner) ==
    LET quotes == QuotePositions(inner)
        kept == {j \in 1..Len(inner) : j \notin quotes \/ ~Outside(quotes, j)}
    IN [k \in 1..Cardinality(kept) |-> inner[Kth(kept, k)]]

Unquote(raw) ==
    IF raw # <<>> /\ raw[1] = "\""
    THEN Undouble(SubSeq(raw, 2, Len(raw) - 1))
    ELSE raw

\* The fields of one line of the log, as a CSV reader returns them.
FieldsBetween(line, end, seps) ==
    LET n == Cardinality(seps) + 1
        lo(k) == IF k = 1 THEN 1 ELSE Kth(seps, k - 1) + 1
        hi(k) == IF k = n THEN end - 1 ELSE Kth(seps, k) - 1
    IN [k \in 1..n |-> Unquote(SubSeq(line, lo(k), hi(k)))]

FieldsBefore(line, end, seps) ==
    FieldsBetween(line, end, {i \in seps : i < end})

\* The positions of the characters that have a meaning to the reader.
MarkChars == {"\"", ",", "\n"}

Marks(line) == {i \in 1..Len(line) : line[i] \in MarkChars}

FieldsMarked(line, marks, quotes) ==
    LET ends == {i \in marks : line[i] = "\n" /\ Outside(quotes, i)}
    IN FieldsBefore(line,
                    IF ends = {} THEN Len(line) + 1 ELSE Kth(ends, 1),
                    {i \in marks : line[i] = "," /\ Outside(quotes, i)})

FieldsOutside(line, marks) ==
    FieldsMarked(line, marks, {i \in marks : line[i] = "\""})

ParseCsvLine(line) == FieldsOutside(line, Marks(line))

\* The positions of the data rows of a log: every line but a header line.
DataRowIndexes(log) == {i \in 1..Len(log) : log[i] # HeaderLine}

\* The data rows of a log, in file order.
DataRows(log) == SelectSeq(log, LAMBDA l : l # HeaderLine)

\* Column 8 of a line of the log.
ImagePathOf(line) == ParseCsvLine(line)[8]

\* Column 1 of a line of the log.
ReportIdOf(line) == ParseCsvLine(line)[1]

\* Text that is empty once trimmed.
IsBlank(text) == \A i \in 1..Len(text) : text[i] \in {" ", "\t", "\n", "\r"}

\* A required field of the form of session s is empty.
MissingField(s) ==
    /\ form[s].submitted
    /\ \/ form[s].specific_area = <<>>
       \/ form[s].description = <<>>

(* ============================== claims ================================= *)

\* C1: a submission with an empty specific_area or description (or both)
\* ends with the validation error; its run never reaches save_image or
\* save_report, opens no image file and appends no row, and no step of its
\* run changes the data rows of the log or the files of the image
\* directory, photo attached or not.
C1_MissingFieldRejected ==
    /\ [](\A s \in Sessions :
            MissingField(s) =>
              /\ pc[s] \notin {"save_image", "save_report"}
              /\ imgWrites[s] = 0
              /\ appendCalls[s] = 0
              /\ pc[s] = "done" => outcome[s] = "validation_error")
    /\ [][\A s \in Sessions :
            (MissingField(s) /\ pc[s] # "idle") =>
              /\ DataRows(csv') = DataRows(csv)
              /\ files' = files]_vars

\* C1 witness: a submission with an empty description and a photo attached
\* has ended with the validation error.
C1_Witness ==
    \E s \in Sessions :
        /\ pc[s] = "done"
        /\ outcome[s] = "validation_error"
        /\ form[s].description = <<>>
        /\ form[s].specific_area = <<>>
        /\ form[s].uploaded_photo.present

\* C2: a submission whose specific_area or description is empty after
\* trimming is rejected like an empty one: no report ID is minted, no image
\* is written, no row is appended, and it ends with the validation error.
C2_BlankFieldRejected ==
    \A s \in Sessions :
        (/\ form[s].submitted
         /\ \/ IsBlank(form[s].specific_area)
            \/ IsBlank(form[s].description)) =>
          /\ report_id[s] = <<>>
          /\ imgWrites[s] = 0
          /\ appendCalls[s] = 0
          /\ pc[s] = "done" => outcome[s] = "validation_error"

\* An image path read from the log is N/A or names a file of the image
\* directory.
ImageExists(path) == path # NA => path \in DOMAIN files

\* C3: every data row of the log whose ImagePath is not N/A names a file
\* that exists in the image directory.
C3_RowImageExists ==
    \A i \in DataRowIndexes(csv) : ImageExists(ImagePathOf(csv[i]))

\* C3 witness: a submission of this behaviour has appended a row with an
\* image path.
C3_Witness ==
    /\ accepted # <<>>
    /\ accepted[Len(accepted)].form.uploaded_photo.present
    /\ ImagePathOf(csv[Len(csv)]) # NA

\* C4: when a photo is attached, save_report is called and success is
\* reported only after the photo's bytes were stored under the run's image
\* path; a run that ended by the exception of a failed image write has
\* called save_report zero times.
C4_ImageFailureAborts ==
    \A s \in Sessions :
        /\ (/\ form[s].uploaded_photo.present
            /\ \/ pc[s] = "save_report"
               \/ appendCalls[s] > 0
               \/ outcome[s] = "success") =>
             /\ ~image_path[s].isNone
             /\ image_path[s].path \in DOMAIN files
             /\ files[image_path[s].path] = form[s].uploaded_photo.buffer
        /\ (pc[s] = "done" /\ outcome[s] = "exception") =>
             /\ appendCalls[s] = 0
             /\ image_path[s].isNone

\* C4 witness: a run with a photo has ended by the exception after the
\* image file was opened (the write failed), without calling save_report.
C4_Witness ==
    \E s \in Sessions :
        /\ pc[s] = "done"
        /\ outcome[s] = "exception"
        /\ form[s].uploaded_photo.present
        /\ imgWrites[s] = 1
        /\ appendCalls[s] = 0

\* The storage the first run met is freshly initialized: no log yet, or a
\* log holding its header only.
FreshStart == ~start.csvExists \/ start.csv = <<HeaderLine>>

\* The values of an appended submission, column by column: the entered
\* values and the values main() derived for it.
SubmittedValues(a) ==
    <<a.report_data.ReportID, a.report_data.Timestamp,
      a.report_data.EmployeeID, a.form.entity, a.form.specific_area,
      a.report_data.Urgency, a.form.description, a.report_data.ImagePath>>

\* C5: from freshly initialized storage, with submissions handled one at a
\* time, the log is the header followed by one row per successful
\* submission, in order, and reading row i back gives the values of
\* submission i in the column order of the header; no step changes or
\* removes a line already in the log, and the header occurs once.
C5_AppendOnlyRoundTrip ==
    /\ [](FreshStart =>
            IF csvExists
            THEN /\ Len(csv) = 1 + Len(accepted)
                 /\ csv[1] = HeaderLine
                 /\ ParseCsvLine(csv[1]) = Columns
                 /\ \A i \in 1..Len(accepted) :
                        /\ csv[i + 1] # HeaderLine
                        /\ ParseCsvLine(csv[i + 1])
                             = SubmittedValues(accepted[i])
            ELSE accepted = <<>>)
    /\ [][csvExists =>
            /\ Len(csv') >= Len(csv)
            /\ \A i \in 1..Len(csv) : csv'[i] = csv[i]]_vars

\* C5 witness: two submissions were appended to a fresh log, the first with
\* a comma in its description, the second with quotes in it.
C5_Witness ==
    /\ FreshStart
    /\ Len(accepted) = 2
    /\ Len(csv) = 3
    /\ accepted[1].form.description = OilWet
    /\ accepted[2].form.description = SayNo

\* C6: whenever the log holds a data row, its first line is the header,
\* whatever storage the app was started on.
C6_HeaderFirst == DataRowIndexes(csv) # {} => csv[1] = HeaderLine

\* C7: initialize_storage is idempotent on every storage state: run twice
\* it gives what one run gives; on a log that has its header and rows it
\* changes no line; it changes no image file; and the storage a run of
\* main() has initialized is left as it is by another initialization.
C7_InitializeIdempotent ==
    LET once == initialize_storage(Storage)
    IN /\ initialize_storage(once) = once
       /\ (csvExists /\ Len(csv) >= 2 /\ csv[1] = HeaderLine) =>
            once.csv = csv
       /\ once.files = files
       /\ \A s \in Sessions :
            pc[s] = "form" => initialize_storage(Storage) = Storage

\* C7 witness: a run has initialized storage whose log holds the header
\* and two rows.
C7_Witness ==
    \E s \in Sessions :
        /\ pc[s] = "form"
        /\ Len(csv) = 3
        /\ csv[1] = HeaderLine
        /\ DOMAIN files # {}

\* The extension of an uploaded file name: its last dot and what follows.
ExtensionOf(name) ==
    LET from == {k \in 2..Len(name) :
                   /\ name[k] = "."
                   /\ \A j \in (k + 1)..Len(name) : name[j] # "."}
    IN IF from = {} THEN <<>>
       ELSE SubSeq(name, Kth(from, 1), Len(name))

\* C8: when a submission has succeeded (submissions handled one at a time):
\* with a photo, the file uploads/{report_id}{extension} exists, holds the
\* uploaded bytes and is the ImagePath of the appended row; without one, no
\* image file was opened, the appended row's ImagePath is N/A, and no step
\* of the run changes the image directory.
C8_ImageStoredAndLinked ==
    /\ [](\A s \in Sessions :
            (pc[s] = "done" /\ outcome[s] = "success") =>
              LET photo == form[s].uploaded_photo
                  row == ParseCsvLine(csv[Len(csv)])
                  path == UPLOADS_DIR \o <<"/">> \o report_id[s]
                          \o ExtensionOf(photo.name)
              IN IF photo.present
                 THEN /\ path \in DOMAIN files
                      /\ files[path] = photo.buffer
                      /\ row[8] = path
                 ELSE /\ imgWrites[s] = 0
                      /\ row[8] = NA)
    /\ [][\A s \in Sessions :
            (/\ pc[s] # "idle"
             /\ form[s].submitted
             /\ ~form[s].uploaded_photo.present) => files' = files]_vars

\* C8 witness: a submission without a photo was appended, and after it a
\* submission with the photo c.tar.jpg has succeeded.
C8_Witness ==
    \E s \in Sessions :
        /\ pc[s] = "done"
        /\ outcome[s] = "success"
        /\ form[s].uploaded_photo = PhotoC
        /\ Len(accepted) = 2
        /\ ~accepted[1].form.uploaded_photo.present

\* C9: an image file is created once and never updated: no step changes
\* the content of a file the image directory already holds, or removes it.
C9_ImageNeverRewritten ==
    [][\A p \in DOMAIN files :
          p \in DOMAIN files' /\ files'[p] = files[p]]_vars

\* C10: no two data rows of the log have the same ReportID.
C10_ReportIdUnique ==
    \A i, j \in DataRowIndexes(csv) :
        i # j => ReportIdOf(csv[i]) # ReportIdOf(csv[j])

\* C11: every run of main() ends with a message main() itself showed: the
\* form, the validation error, the success or the save failure; no failure
\* leaves main() as an exception.
C11_FailuresHandled ==
    \A s \in Sessions :
        pc[s] = "done" =>
          outcome[s] \in {"rendered", "validation_error", "success",
                          "save_failed"}

\* Line i of new is line i of old, for every line of old.
KeepsLines(old, new) ==
    /\ Len(new) >= Len(old)
    /\ \A i \in 1..Len(old) : new[i] = old[i]

\* C12: a run shows success exactly in the step in which save_report
\* appends its row, whose ReportID is the report_id shown; a call of
\* save_report that leaves the log as it was ends the run with the save
\* failure; a run opens at most one image file and calls save_report at
\* most once, and once it has ended it does nothing more.
C12_SuccessIffAppended ==
    /\ [](\A s \in Sessions :
            /\ imgWrites[s] <= 1
            /\ appendCalls[s] <= 1
            /\ outcome[s] \in {"success", "save_failed"} =>
                 pc[s] = "done" /\ appendCalls[s] = 1)
    /\ [][\A s \in Sessions :
            /\ (outcome'[s] = "success" /\ outcome[s] # "success") <=>
                 /\ pc[s] = "save_report"
                 /\ Len(csv') = Len(csv) + 1
                 /\ KeepsLines(csv, csv')
                 /\ ReportIdOf(csv'[Len(csv')]) = report_id[s]
            /\ (pc[s] = "save_report" /\ pc'[s] # "save_report"
                /\ csv' = csv) =>
                 outcome'[s] = "save_failed" /\ pc'[s] = "done"
            /\ pc[s] = "done" => pc'[s] \in {"done", "idle"}]_vars

\* C12 witness: a run stored its photo, called save_report once, the append
\* failed and the run ended with the save failure.
C12_Witness ==
    \E s \in Sessions :
        /\ pc[s] = "done"
        /\ outcome[s] = "save_failed"
        /\ imgWrites[s] = 1
        /\ appendCalls[s] = 1
        /\ accepted # <<>>

\* The line of the log that holds the i-th row appended in this behaviour
\* (runs handled one at a time: the rows appended are the last lines).
RowOfAccepted(i) == ParseCsvLine(csv[Len(csv) - Len(accepted) + i])

BeforeValidation == {"check_dir", "make_dir", "check_csv", "create_csv", "form"}

\* C14: no step of a run that has not passed validation yet changes the
\* image directory or the log in any way.
C14_NoWriteBeforeValidation ==
    [][\A s \in Sessions :
          pc[s] \in BeforeValidation =>
            /\ dirExists' = dirExists
            /\ files' = files
            /\ csvExists' = csvExists
            /\ csv' = csv]_vars

\* C14, amended: before a run has passed validation the only writes are
\* those of initialize_storage, which creates the image directory and
\* creates the log with its header when the log is absent: no image file
\* and no data row changes; an image is opened or save_report called only
\* for a form whose description and specific_area are both non-empty; and
\* a submission that fails validation on storage that was never initialized
\* leaves the directory created and empty and the log holding its header.
C14_OnlyInitBeforeValidation ==
    /\ [][\A s \in Sessions :
            pc[s] \in BeforeValidation =>
              /\ files' = files
              /\ DataRows(csv') = DataRows(csv)
              /\ csv' # csv => ~csvExists /\ csv' = <<HeaderLine>>
              /\ dirExists => dirExists']_vars
    /\ [](\A s \in Sessions :
            /\ (pc[s] \in {"save_image", "save_report"}
                \/ imgWrites[s] > 0 \/ appendCalls[s] > 0) =>
                 /\ form[s].submitted
                 /\ form[s].description # <<>>
                 /\ form[s].specific_area # <<>>
            /\ (pc[s] = "done" /\ MissingField(s) /\ runs = 1
                /\ ~start.dirExists /\ ~start.csvExists) =>
                 /\ dirExists
                 /\ DOMAIN files = {}
                 /\ csvExists
                 /\ csv = <<HeaderLine>>)

\* C14 witness: the first run on storage that was never initialized has
\* failed validation, and the directory and the header exist.
C14_Witness ==
    \E s \in Sessions :
        /\ pc[s] = "done"
        /\ outcome[s] = "validation_error"
        /\ runs = 1
        /\ ~start.dirExists
        /\ ~start.csvExists
        /\ dirExists
        /\ csv = <<HeaderLine>>

\* C15: with the runs of two sessions interleaved, the step in which
\* initialize_storage writes the header file loses no line the log holds:
\* no appended row is lost to initialization.
C15_InitKeepsLog ==
    [][\A s \in Sessions :
          (pc[s] = "create_csv" /\ pc'[s] # "create_csv") =>
            KeepsLines(csv, csv')]_vars

\* The order of two characters of a Timestamp: digits by value, the
\* separators all alike.
CharValue(c) ==
    IF \E n \in 0..9 : Digit(n) = c
    THEN 1 + (CHOOSE n \in 0..9 : Digit(n) = c)
    ELSE 0

\* a is not later than b, for two Timestamps of the same format: they are
\* equal or the first character that differs is smaller in a.
NotLater(a, b) ==
    \/ a = b
    \/ \E k \in 1..Len(a) :
         /\ k <= Len(b)
         /\ CharValue(a[k]) < CharValue(b[k])
         /\ \A j \in 1..(k - 1) : a[j] = b[j]

\* Column 2 of a line of the log.
TimestampOf(line) == ParseCsvLine(line)[2]

\* C16: the Timestamp values of the data rows of the log are non-decreasing
\* from the first data row to the last, also when the runs of two sessions
\* interleave.
C16_RowsChronological ==
    \A i, j \in DataRowIndexes(csv) :
        i < j => NotLater(TimestampOf(csv[i]), TimestampOf(csv[j]))

\* 'HAZ' and the digits of a Timestamp YYYY-MM-DD HH:MM:SS, as
\* YYYYMMDD-HHMMSS.
IdOfTimestamp(ts) ==
    <<"H", "A", "Z">> \o SubSeq(ts, 1, 4) \o SubSeq(ts, 6, 7)
    \o SubSeq(ts, 9, 10) \o <<"-">> \o SubSeq(ts, 12, 13)
    \o SubSeq(ts, 15, 16) \o SubSeq(ts, 18, 19)

\* text begins with prefix.
StartsWith(text, prefix) ==
    /\ Len(text) >= Len(prefix)
    /\ SubSeq(text, 1, Len(prefix)) = prefix

\* C17: in every data row of the log the ReportID is 'HAZ' followed by the
\* date and time digits of the row's own Timestamp, and the row's image
\* file, if it has one, is in the image directory under a name that starts
\* with that ReportID.
C17_IdFromTimestamp ==
    LET FieldsFit(id, stamp, path) ==
            /\ Len(stamp) = 19
            /\ id = IdOfTimestamp(stamp)
            /\ path # NA => StartsWith(path, UPLOADS_DIR \o <<"/">> \o id)
        RowFits(row) == FieldsFit(row[1], row[2], row[8])
    IN \A i \in DataRowIndexes(csv) : RowFits(ParseCsvLine(csv[i]))

\* C17 witness: a row with a photo was appended in the second after the
\* first one of the clock.
C17_Witness ==
    /\ accepted # <<>>
    /\ accepted[Len(accepted)].timestamp.second = 59
    /\ accepted[Len(accepted)].form.uploaded_photo.present
    /\ ImagePathOf(csv[Len(csv)]) # NA

\* C18: when a run has ended, whatever its outcome, the image file it
\* stored is the ImagePath of a data row of the log.
C18_ImageHasRow ==
    \A s \in Sessions :
        (pc[s] = "done" /\ ~image_path[s].isNone) =>
          \E i \in DataRowIndexes(csv) :
              ImagePathOf(csv[i]) = image_path[s].path

====
